---- MODULE Spec2Model ----
(***************************************************************************)
(* liboverdrop: scan() and scan_and_merge() of src/src/lib.rs.             *)
(*                                                                         *)
(* File names, extensions and symlink targets are sequences of one-        *)
(* character strings (an OsString / Path is a byte string on Unix).  The   *)
(* BTreeMap files_map is a sequence of [key, val] records kept in key      *)
(* order by BTreeInsert / BTreeRemove; iterating the map is reading the    *)
(* sequence from its first element.                                        *)
(***************************************************************************)
EXTENDS Integers, Sequences, FiniteSets, TLC

VARIABLES
    tree,               \* the filesystem: base directory -> [readable, entries]
    base_dirs,          \* argument: sequence of base directories, low to high priority
    shared_path,        \* argument: the relative path joined onto every base directory
    allowed_extensions, \* argument: sequence of extensions (empty: all allowed)
    ignore_dotfiles,    \* argument: BOOLEAN
    files_map,          \* scan's BTreeMap, accumulating over the directories
    pc,                 \* position in scan / scan_and_merge
    dir_idx,            \* position of the `for dir in base_dirs` loop
    dir_iter,           \* entries of the current directory not yet yielded
    merge_iter,         \* scan_and_merge: entries of scan's result not yet visited
    res,                \* scan_and_merge: the accumulator
    opened,             \* scan_and_merge: the paths File::open was called on, in order
    outcome             \* scan_and_merge: "none" while running, then Ok / Err

vars == <<tree, base_dirs, shared_path, allowed_extensions, ignore_dotfiles,
          files_map, pc, dir_idx, dir_iter, merge_iter, res, opened, outcome>>

(***************************************************************************)
(* Bounds of the model.                                                    *)
(***************************************************************************)
MaxDirs == 3        \* base directories, specification Spec
ChainDirs == 4      \* base directories, specification SpecChain
FilterDirs == 2     \* base directories, specification SpecFilter
MaxNameLen == 3     \* characters in a file name, specification SpecFilter
OrderDirs == 3      \* base directories, specification SpecOrder
MaxEntries == 3     \* entries in all directories together, specification SpecOrder

(***************************************************************************)
(* Bytes and strings.                                                      *)
(***************************************************************************)
NameChars == {".", "t"}
ExtChars == {"t", "T"}

\* The characters of a name are single bytes. The printable ones in the order
\* of their byte values: 32 to 95, and 97 to 126 (byte 96, the grave accent,
\* cannot be written in a string of this language).
AsciiLow ==
    <<" ", "!", "\"", "#", "$", "%", "&", "'", "(", ")", "*", "+", ",", "-", ".", "/",
       "0", "1", "2", "3", "4", "5", "6", "7", "8", "9", ":", ";", "<", "=", ">", "?",
       "@", "A", "B", "C", "D", "E", "F", "G", "H", "I", "J", "K", "L", "M", "N", "O",
       "P", "Q", "R", "S", "T", "U", "V", "W", "X", "Y", "Z", "[", "\\", "]", "^", "_" >>

AsciiHigh ==
    <<"a", "b", "c", "d", "e", "f", "g", "h", "i", "j", "k", "l", "m", "n", "o", "p",
       "q", "r", "s", "t", "u", "v", "w", "x", "y", "z", "{", "|", "}", "~" >>

\* The byte value of a character (OsString compares bytes on Unix).
ByteOf(c) ==
    IF \E i \in 1..Len(AsciiLow) : AsciiLow[i] = c
    THEN 31 + (CHOOSE i \in 1..Len(AsciiLow) : AsciiLow[i] = c)
    ELSE 96 + (CHOOSE i \in 1..Len(AsciiHigh) : AsciiHigh[i] = c)

\* <OsString as Ord>::cmp = Less: byte-lexicographic, a proper prefix is smaller.
OsLess(a, b) ==
    \E i \in 1..(Len(a) + 1) :
        /\ i <= Len(b)
        /\ \A j \in 1..(i - 1) : a[j] = b[j]
        /\ (i = Len(a) + 1 \/ ByteOf(a[i]) < ByteOf(b[i]))

\* The well-known path to the null device.
DEVNULL == <<"/", "d", "e", "v", "/", "n", "u", "l", "l">>

\* Other symlink targets an entry may have.
DevNullSlashes == <<"/", "d", "e", "v", "/", "/", "n", "u", "l", "l", "/">>
DevNullRelative == <<"d", "e", "v", "/", "n", "u", "l", "l">>
Targets == {DEVNULL, DevNullSlashes, DevNullRelative}

LastIndexOf(s, c) ==
    IF \E i \in 1..Len(s) : s[i] = c
    THEN CHOOSE i \in 1..Len(s) : s[i] = c /\ \A j \in (i + 1)..Len(s) : s[j] # c
    ELSE 0

\* StartsWithDot without the test: no name counts as hidden.
StartsWithDotNever(fname) == FALSE

\* fname.to_string_lossy().starts_with('.')
StartsWithDot(fname) == Len(fname) > 0 /\ fname[1] = "."

\* Extension taken as the text after the last '.', wherever that '.' is.
ExtensionAfterFinalDot(fname) ==
    LET d == LastIndexOf(fname, ".") IN
    IF d = 0 THEN <<>> ELSE <<SubSeq(fname, d + 1, Len(fname))>>

\* Path::extension() of a path whose final component is fname: None (<<>>) or
\* Some(ext) (<<ext>>).  None without a '.', and None when the only '.' is the
\* first character; otherwise the text after the last '.'.
Extension(fname) ==
    LET d == LastIndexOf(fname, ".") IN
    IF d = 0 \/ d = 1
    THEN <<>>
    ELSE <<SubSeq(fname, d + 1, Len(fname))>>

\* Path::components() of a target: whether it has a root, and its components;
\* repeated and trailing '/' are dropped, and so is a "." that is not first.
RECURSIVE SplitSlash(_)
SplitSlash(p) ==
    IF \A i \in 1..Len(p) : p[i] # "/"
    THEN <<p>>
    ELSE LET i == CHOOSE k \in 1..Len(p) : p[k] = "/" /\ \A j \in 1..(k - 1) : p[j] # "/"
         IN <<SubSeq(p, 1, i - 1)>> \o SplitSlash(SubSeq(p, i + 1, Len(p)))

Components(p) ==
    LET parts == SplitSlash(p)
        rooted == Len(p) > 0 /\ p[1] = "/"
        keep(i) == /\ parts[i] # <<>>
                   /\ (parts[i] = <<".">> => (i = 1 /\ ~rooted))
        idx == {i \in 1..Len(parts) : keep(i)}
        RECURSIVE Pick(_)
        Pick(i) == IF i > Len(parts) THEN <<>>
                   ELSE (IF i \in idx THEN <<parts[i]>> ELSE <<>>) \o Pick(i + 1)
    IN [root |-> rooted, parts |-> Pick(1)]

\* target == Path::new(DEVNULL): Path equality compares components.
IsDevNull(target) == Components(target) = Components(DEVNULL)

(***************************************************************************)
(* BTreeMap<OsString, PathBuf>.                                            *)
(***************************************************************************)
Keys(m) == {m[i].key : i \in 1..Len(m)}
KeySeq(m) == [i \in 1..Len(m) |-> m[i].key]
ValSeq(m) == [i \in 1..Len(m) |-> m[i].val]
Get(m, k) == (CHOOSE e \in {m[i] : i \in 1..Len(m)} : e.key = k).val

\* insert that keeps the value already stored under an equal key.
BTreeInsertKeepFirst(m, k, v) ==
    IF \E i \in 1..Len(m) : m[i].key = k
    THEN m
    ELSE LET p == Cardinality({i \in 1..Len(m) : OsLess(m[i].key, k)})
         IN SubSeq(m, 1, p) \o <<[key |-> k, val |-> v]>> \o SubSeq(m, p + 1, Len(m))

\* insert that keeps insertion order: a new key goes last.
BTreeInsertAppend(m, k, v) ==
    IF \E i \in 1..Len(m) : m[i].key = k
    THEN [i \in 1..Len(m) |-> IF m[i].key = k THEN [key |-> k, val |-> v] ELSE m[i]]
    ELSE Append(m, [key |-> k, val |-> v])

\* BTreeMap::insert: replace the value of an equal key, else place the new
\* entry after every smaller key.
BTreeInsert(m, k, v) ==
    IF \E i \in 1..Len(m) : m[i].key = k
    THEN [i \in 1..Len(m) |-> IF m[i].key = k THEN [key |-> k, val |-> v] ELSE m[i]]
    ELSE LET p == Cardinality({i \in 1..Len(m) : OsLess(m[i].key, k)})
         IN SubSeq(m, 1, p) \o <<[key |-> k, val |-> v]>> \o SubSeq(m, p + 1, Len(m))

\* remove that removes nothing.
BTreeRemoveNothing(m, k) == m

\* remove that drops the first entry of the map, whatever its key.
BTreeRemoveFirst(m, k) == IF m = <<>> THEN m ELSE Tail(m)

\* BTreeMap::remove: drop the entry of an equal key, if any.
BTreeRemove(m, k) == SelectSeq(m, LAMBDA e : e.key # k)

(***************************************************************************)
(* The filesystem.  A directory entry is a regular file, a symlink with a  *)
(* target, a directory (standing for every other type: FIFO, device), or   *)
(* an entry whose metadata cannot be read.                                 *)
(***************************************************************************)
RegularFile == [kind |-> "file", target |-> <<>>]
Directory == [kind |-> "dir", target |-> <<>>]
NoMetadata == [kind |-> "nometa", target |-> <<>>]
Symlink(t) == [kind |-> "symlink", target |-> t]
EntryTypes == {RegularFile, Directory, NoMetadata} \cup {Symlink(t) : t \in Targets}

\* File names of at most n characters; a listing never yields "." or "..".
NamesUpTo(n) ==
    {s \in UNION {[1..k -> NameChars] : k \in 1..n} : s \notin {<<".">>, <<".", ".">>}}

\* dir.as_ref().join(shared_path), then entry.path(): the directory joined with the name.
PathJoin(base, sp, fname) == <<base, sp, fname>>
FileName(fpath) == fpath[3]

(***************************************************************************)
(* scan: the body of `for entry in dir_iter.flatten()`.                    *)
(***************************************************************************)
\* allowed_extensions.iter().any(|ae| ae.as_ref() == extension)
AnyAllowed(exts, extension) == \E i \in 1..Len(exts) : exts[i] = extension

\* The two `continue`s on the name: hidden file, extension not allowed.
SkippedByName(fname, fpath, exts, nodot) ==
    \/ nodot /\ StartsWithDot(fname)
    \/ /\ exts # <<>>
       /\ LET e == Extension(FileName(fpath)) IN
          \/ e = <<>>
          \/ ~AnyAllowed(exts, e[1])

\* ScanEntry without the test of the symlink's target: every symlink removes.
ScanEntryAnySymlink(map, fname, fpath, ent, exts, nodot) ==
    IF SkippedByName(fname, fpath, exts, nodot) THEN map
    ELSE IF ent.kind = "nometa" THEN map
    ELSE IF ent.kind # "file"
         THEN IF ent.kind = "symlink" THEN BTreeRemove(map, fname) ELSE map
    ELSE BTreeInsert(map, fname, fpath)

\* ScanEntry without the file-type test: whatever is not a symlink is inserted.
ScanEntryNoTypeCheck(map, fname, fpath, ent, exts, nodot) ==
    IF SkippedByName(fname, fpath, exts, nodot) THEN map
    ELSE IF ent.kind = "nometa" THEN map
    ELSE IF ent.kind = "symlink"
         THEN IF IsDevNull(ent.target) THEN BTreeRemove(map, fname) ELSE map
    ELSE BTreeInsert(map, fname, fpath)

\* One directory entry applied to the map.
ScanEntry(map, fname, fpath, ent, exts, nodot) ==
    IF SkippedByName(fname, fpath, exts, nodot) THEN map
    ELSE IF ent.kind = "nometa" THEN map
    ELSE IF ent.kind # "file"
         THEN IF ent.kind = "symlink" /\ IsDevNull(ent.target)
              THEN BTreeRemove(map, fname)
              ELSE map
    ELSE BTreeInsert(map, fname, fpath)

\* The entries of one listing applied in some order.
RECURSIVE ScanEntries(_, _, _, _, _, _)
ScanEntries(map, entries, names, dirpath, exts, nodot) ==
    IF names = {} THEN map
    ELSE LET n == CHOOSE x \in names : TRUE IN
         ScanEntries(ScanEntry(map, n, PathJoin(dirpath[1], dirpath[2], n),
                               entries[n], exts, nodot),
                     entries, names \ {n}, dirpath, exts, nodot)

\* scan as a function of the filesystem and its arguments.
RECURSIVE ScanFrom(_, _, _, _, _, _, _)
ScanFrom(map, i, fs, bd, sp, exts, nodot) ==
    IF i > Len(bd) THEN map
    ELSE LET d == fs[bd[i]] IN
         ScanFrom(IF d.readable
                  THEN ScanEntries(map, d.entries, DOMAIN d.entries, <<bd[i], sp>>,
                                   exts, nodot)
                  ELSE map,
                  i + 1, fs, bd, sp, exts, nodot)

scan(fs, bd, sp, exts, nodot) == ScanFrom(<<>>, 1, fs, bd, sp, exts, nodot)

(***************************************************************************)
(* scan, step by step.                                                     *)
(***************************************************************************)
ScanVars == <<tree, base_dirs, shared_path, allowed_extensions, ignore_dotfiles>>
MergeVars == <<merge_iter, res, opened, outcome>>

\* fs::read_dir(dir) is Ok: iterate its entries.
ReadDirOk ==
    /\ pc = "for_dir"
    /\ dir_idx <= Len(base_dirs)
    /\ tree[base_dirs[dir_idx]].readable
    /\ dir_iter' = DOMAIN tree[base_dirs[dir_idx]].entries
    /\ pc' = "for_entry"
    /\ UNCHANGED <<ScanVars, MergeVars, files_map, dir_idx>>

\* ReadDirErr that gives up on the remaining directories.
ReadDirErrAbort ==
    /\ pc = "for_dir"
    /\ dir_idx <= Len(base_dirs)
    /\ ~tree[base_dirs[dir_idx]].readable
    /\ dir_idx' = Len(base_dirs) + 1
    /\ UNCHANGED <<ScanVars, MergeVars, files_map, pc, dir_iter>>

\* fs::read_dir(dir) is Err: continue with the next directory.
ReadDirErr ==
    /\ pc = "for_dir"
    /\ dir_idx <= Len(base_dirs)
    /\ ~tree[base_dirs[dir_idx]].readable
    /\ dir_idx' = dir_idx + 1
    /\ UNCHANGED <<ScanVars, MergeVars, files_map, pc, dir_iter>>

\* The listing yields one more entry, in no particular order.
NextEntry ==
    /\ pc = "for_entry"
    /\ \E fname \in dir_iter :
        LET base == base_dirs[dir_idx] IN
        /\ files_map' = ScanEntry(files_map, fname, PathJoin(base, shared_path, fname),
                                  tree[base].entries[fname], allowed_extensions,
                                  ignore_dotfiles)
        /\ dir_iter' = dir_iter \ {fname}
    /\ UNCHANGED <<ScanVars, MergeVars, pc, dir_idx>>

\* The listing is exhausted: next directory.
EndOfDir ==
    /\ pc = "for_entry"
    /\ dir_iter = {}
    /\ dir_idx' = dir_idx + 1
    /\ pc' = "for_dir"
    /\ UNCHANGED <<ScanVars, MergeVars, files_map, dir_iter>>

\* scan returns files_map; scan_and_merge starts iterating it.
ScanReturn ==
    /\ pc = "for_dir"
    /\ dir_idx > Len(base_dirs)
    /\ pc' = "merge"
    /\ merge_iter' = files_map
    /\ UNCHANGED <<ScanVars, files_map, dir_idx, dir_iter, res, opened, outcome>>

(***************************************************************************)
(* scan_and_merge: the fold.  T is the sequence of merged names, and       *)
(* T::default() the empty sequence; whether File::open or the caller's     *)
(* merge fails is the environment's choice.                                *)
(***************************************************************************)
\* File::open(v) fails: `?` returns the error.
MergeOpenErr ==
    /\ pc = "merge"
    /\ merge_iter # <<>>
    /\ opened' = Append(opened, Head(merge_iter).val)
    /\ outcome' = "Err_open"
    /\ pc' = "return"
    /\ UNCHANGED <<ScanVars, files_map, dir_idx, dir_iter, merge_iter, res>>

\* MergeFnErr that drops the error and goes on with the next fragment.
MergeFnErrContinue ==
    /\ pc = "merge"
    /\ merge_iter # <<>>
    /\ opened' = Append(opened, Head(merge_iter).val)
    /\ merge_iter' = Tail(merge_iter)
    /\ UNCHANGED <<ScanVars, files_map, dir_idx, dir_iter, pc, res, outcome>>

\* merge(res, &k, f) fails: `?` returns the error.
MergeFnErr ==
    /\ pc = "merge"
    /\ merge_iter # <<>>
    /\ opened' = Append(opened, Head(merge_iter).val)
    /\ outcome' = "Err_merge"
    /\ pc' = "return"
    /\ UNCHANGED <<ScanVars, files_map, dir_idx, dir_iter, merge_iter, res>>

\* res = merge(res, &k, f)?
MergeOk ==
    /\ pc = "merge"
    /\ merge_iter # <<>>
    /\ opened' = Append(opened, Head(merge_iter).val)
    /\ res' = Append(res, Head(merge_iter).key)
    /\ merge_iter' = Tail(merge_iter)
    /\ UNCHANGED <<ScanVars, files_map, dir_idx, dir_iter, pc, outcome>>

\* Ok(res)
MergeReturn ==
    /\ pc = "merge"
    /\ merge_iter = <<>>
    /\ outcome' = "Ok"
    /\ pc' = "return"
    /\ UNCHANGED <<ScanVars, files_map, dir_idx, dir_iter, merge_iter, res, opened>>

Next ==
    \/ ReadDirOk
    \/ ReadDirErr
    \/ NextEntry
    \/ EndOfDir
    \/ ScanReturn
    \/ MergeOpenErr
    \/ MergeFnErr
    \/ MergeOk
    \/ MergeReturn

(***************************************************************************)
(* Initial states: the arguments and the filesystem of one call.           *)
(***************************************************************************)
\* Every sequence of distinct extensions.
ExtensionLists ==
    LET exts == {<<c>> : c \in ExtChars} IN
    {s \in UNION {[1..k -> exts] : k \in 0..Cardinality(exts)} :
        \A i, j \in 1..Len(s) : i # j => s[i] # s[j]}

\* No extension or one.
SingleExtensions == {s \in ExtensionLists : Len(s) <= 1}

\* The directories that can be listed, holding at most `most` entries named from
\* `names`, of the types in `types`.
Listable(names, most, types) ==
    {[readable |-> TRUE, entries |-> f] :
        f \in UNION {[S -> types] : S \in {T \in SUBSET names : Cardinality(T) <= most}}}

\* The same directories when read_dir fails on them (no permission).
Unlistable(names, most, types) ==
    {[d EXCEPT !.readable = FALSE] : d \in Listable(names, most, types)}

\* A base directory that does not exist.
Missing == [readable |-> FALSE, entries |-> <<>>]

\* The state on entry to scan, the filesystem being one of `trees`.
Start(n, trees, exts, nodot) ==
    /\ base_dirs = [i \in 1..n |-> i]
    /\ tree \in trees
    /\ shared_path = "conf.d"
    /\ allowed_extensions = exts
    /\ ignore_dotfiles = nodot
    /\ files_map = <<>>
    /\ pc = "for_dir"
    /\ dir_idx = 1
    /\ dir_iter = {}
    /\ merge_iter = <<>>
    /\ res = <<>>
    /\ opened = <<>>
    /\ outcome = "none"

\* File names with and without a leading '.', with and without the extension "t".
LayerNames == {<<"t">>, <<".", "t">>, <<"t", ".", "t">>, <<".", ".", "t">>}

\* One file name, of any type, in up to MaxDirs directories; a directory that
\* cannot be listed may be missing or hold a regular file.
Init ==
    \E n \in 1..MaxDirs, x \in LayerNames, exts \in SingleExtensions, nodot \in BOOLEAN :
        Start(n,
              [1..n -> Listable({x}, 1, EntryTypes) \cup Unlistable({x}, 1, {RegularFile})],
              exts, nodot)

Spec == Init /\ [][Next]_vars

\* One file name, a regular file or a /dev/null symlink, in up to ChainDirs
\* directories.
InitChain ==
    \E n \in 1..ChainDirs, x \in LayerNames, exts \in ExtensionLists, nodot \in BOOLEAN :
        Start(n,
              [1..n -> Listable({x}, 1, {RegularFile, Symlink(DEVNULL)}) \cup {Missing}],
              exts, nodot)

SpecChain == InitChain /\ [][Next]_vars

\* One file name out of all those of at most MaxNameLen characters, in up to
\* FilterDirs directories.
InitFilter ==
    \E n \in 1..FilterDirs, x \in NamesUpTo(MaxNameLen), exts \in ExtensionLists,
       nodot \in BOOLEAN :
        Start(n,
              [1..n -> Listable({x}, 1, {RegularFile, Directory, Symlink(DEVNULL)})
                           \cup {Missing}],
              exts, nodot)

SpecFilter == InitFilter /\ [][Next]_vars

\* File names of which one is a prefix of another, and which differ in a digit,
\* an upper-case letter, a lower-case letter and '.'.
OrderNames == {<<"a">>, <<"a", "0">>, <<"B">>, <<".", "t">>}

\* The filesystem of n directories holding the entries S, a set of <<directory,
\* name>>, of the types f, the directories U missing.
OrderTree(n, S, f, U) ==
    [d \in 1..n |->
        [readable |-> d \notin U,
         entries |-> [x \in {y \in OrderNames : <<d, y>> \in S} |-> f[<<d, x>>]]]]

\* Several file names, at most MaxEntries entries in all directories together,
\* each a regular file or a /dev/null symlink; the directories without entries
\* are all present or all missing; every extension and dotfiles allowed.
InitOrder ==
    \E n \in 1..OrderDirs :
        \E S \in {T \in SUBSET ((1..n) \X OrderNames) : Cardinality(T) <= MaxEntries} :
            \E f \in [S -> {RegularFile, Symlink(DEVNULL)}] :
                \E U \in {{}, {d \in 1..n : \A y \in OrderNames : <<d, y>> \notin S}} :
                    Start(n, {OrderTree(n, S, f, U)}, <<>>, FALSE)

SpecOrder == InitOrder /\ [][Next]_vars

(***************************************************************************)
(* Vocabulary of the properties, read off the filesystem and the           *)
(* arguments.                                                              *)
(***************************************************************************)
Positions == 1..Len(base_dirs)
AllNames == UNION {DOMAIN tree[d].entries : d \in DOMAIN tree}
ScanDone == pc \in {"merge", "return"}
\* scan has just returned files_map.
ScanReturned == pc = "merge" /\ opened = <<>>
AfterDir(j) == pc = "for_dir" /\ dir_idx = j + 1

\* The listing of the directory at position i yields an entry named x.
Lists(i, x) ==
    /\ tree[base_dirs[i]].readable
    /\ x \in DOMAIN tree[base_dirs[i]].entries
EntryAt(i, x) == tree[base_dirs[i]].entries[x]
FileAt(i, x) == Lists(i, x) /\ EntryAt(i, x).kind = "file"
NullLinkAt(i, x) ==
    /\ Lists(i, x)
    /\ EntryAt(i, x).kind = "symlink"
    /\ IsDevNull(EntryAt(i, x).target)
\* Any other entry: directory, other symlink, unreadable metadata.
InertAt(i, x) == Lists(i, x) /\ ~FileAt(i, x) /\ ~NullLinkAt(i, x)

LocationAt(i, x) == PathJoin(base_dirs[i], shared_path, x)

\* x passes the dotfile and extension filters of this call.
Passing(x) ==
    ~SkippedByName(x, PathJoin(0, shared_path, x), allowed_extensions, ignore_dotfiles)

\* The last position at which x is a regular file or a /dev/null symlink; 0 if none.
LastTyped(x) ==
    LET S == {i \in Positions : FileAt(i, x) \/ NullLinkAt(i, x)} IN
    IF S = {} THEN 0 ELSE CHOOSE i \in S : \A j \in S : j <= i

\* No directory after position j holds x as a regular file or a /dev/null symlink.
LastWord(j, x) == \A k \in Positions : k > j => ~FileAt(k, x) /\ ~NullLinkAt(k, x)

Occurrences(m, x) == Cardinality({i \in 1..Len(m) : m[i].key = x})
IsPrefix(a, b) == Len(a) <= Len(b) /\ SubSeq(b, 1, Len(a)) = a

(***************************************************************************)
(* C1.  Override.                                                          *)
(***************************************************************************)
\* C1 as stated: whenever two directories at positions i < j both hold a passing
\* regular file named x, scan's result maps x to directory j's file.
C1_OverrideAsStated ==
    ScanDone =>
        \A x \in AllNames : \A i, j \in Positions :
            (i < j /\ Passing(x) /\ FileAt(i, x) /\ FileAt(j, x))
                => /\ x \in Keys(files_map)
                   /\ Get(files_map, x) = LocationAt(j, x)

\* C1 amended: whenever two directories at positions i < j both hold a passing
\* regular file named x, and no directory after j holds x as a passing regular
\* file or /dev/null symlink, scan's result maps x to directory j's file,
\* whatever directory i and the directories before j hold.
C1_Override ==
    ScanDone =>
        \A x \in AllNames : \A i, j \in Positions :
            (i < j /\ Passing(x) /\ FileAt(i, x) /\ FileAt(j, x) /\ LastWord(j, x))
                => /\ x \in Keys(files_map)
                   /\ Get(files_map, x) = LocationAt(j, x)

C1_Witness ==
    /\ ScanDone
    /\ \E x \in AllNames : \E i, j \in Positions :
        /\ i < j /\ j < Len(base_dirs)
        /\ Passing(x) /\ FileAt(i, x) /\ FileAt(j, x) /\ LastWord(j, x)
        /\ InertAt(j + 1, x)
        /\ base_dirs[i] # base_dirs[j]
        /\ Get(files_map, x) = LocationAt(j, x)

(***************************************************************************)
(* C2.  Tombstone.                                                         *)
(***************************************************************************)
\* x is a passing regular file at i and a /dev/null symlink at a later j.
Tombstoned(i, j, x) == i < j /\ Passing(x) /\ FileAt(i, x) /\ NullLinkAt(j, x)

\* C2 as stated: if x is a passing regular file at i and a /dev/null symlink at
\* a later j, x is absent once directory j has been processed; in scan's result
\* x is absent unless a directory k after j holds x as a passing regular file,
\* and then x maps to k's file.
C2_TombstoneAsStated ==
    \A x \in AllNames : \A i, j \in Positions :
        Tombstoned(i, j, x) =>
            /\ AfterDir(j) => x \notin Keys(files_map)
            /\ ScanDone =>
                /\ (\A k \in Positions : k > j => ~FileAt(k, x))
                        => x \notin Keys(files_map)
                /\ \A k \in Positions :
                        (k > j /\ FileAt(k, x))
                            => /\ x \in Keys(files_map)
                               /\ Get(files_map, x) = LocationAt(k, x)

\* C2 amended: if x is a passing regular file at i and a /dev/null symlink at a
\* later j, x is absent once directory j has been processed; in scan's result x
\* is absent unless a directory k after j holds x as a passing regular file; it
\* maps to k's file when k is the last directory holding x as a passing regular
\* file or /dev/null symlink.
C2_Tombstone ==
    \A x \in AllNames : \A i, j \in Positions :
        Tombstoned(i, j, x) =>
            /\ AfterDir(j) => x \notin Keys(files_map)
            /\ ScanDone =>
                /\ (\A k \in Positions : k > j => ~FileAt(k, x))
                        => x \notin Keys(files_map)
                /\ \A k \in Positions :
                        (k > j /\ FileAt(k, x) /\ LastWord(k, x))
                            => /\ x \in Keys(files_map)
                               /\ Get(files_map, x) = LocationAt(k, x)

C2_Witness ==
    /\ ScanDone
    /\ \E x \in AllNames : \E i, j, k \in Positions :
        /\ Tombstoned(i, j, x)
        /\ k > j /\ FileAt(k, x) /\ LastWord(k, x)
        /\ Get(files_map, x) = LocationAt(k, x)

(***************************************************************************)
(* C3.  Resolution invariant.                                              *)
(***************************************************************************)
\* C3: in scan's result every name x has at most one entry, decided by the last
\* directory holding x as a passing regular file or passing /dev/null symlink:
\* that directory's path for x if a regular file, no entry otherwise; and at
\* every moment each entry points into a directory holding a passing regular
\* file of that name.
C3_Resolution ==
    /\ \A e \in {files_map[n] : n \in 1..Len(files_map)} :
        \E i \in Positions :
            Passing(e.key) /\ FileAt(i, e.key) /\ e.val = LocationAt(i, e.key)
    /\ ScanDone =>
        /\ Keys(files_map) \subseteq AllNames
        /\ \A x \in AllNames :
            LET l == LastTyped(x) IN
            IF Passing(x) /\ l > 0 /\ FileAt(l, x)
            THEN /\ Occurrences(files_map, x) = 1
                 /\ Get(files_map, x) = LocationAt(l, x)
            ELSE Occurrences(files_map, x) = 0

C3_Witness ==
    /\ ScanDone
    /\ Len(base_dirs) = 3
    /\ \E x \in AllNames :
        /\ Passing(x)
        /\ NullLinkAt(1, x) /\ FileAt(2, x) /\ Lists(3, x) /\ EntryAt(3, x) = Directory
        /\ Get(files_map, x) = LocationAt(2, x)

(***************************************************************************)
(* C4.  Ordering.                                                          *)
(***************************************************************************)
\* Byte-lexicographic order, by its definition: the first differing byte
\* decides, and a proper prefix comes first.
RECURSIVE ByteLexLess(_, _)
ByteLexLess(a, b) ==
    IF b = <<>> THEN FALSE
    ELSE IF a = <<>> THEN TRUE
    ELSE IF ByteOf(Head(a)) # ByteOf(Head(b)) THEN ByteOf(Head(a)) < ByteOf(Head(b))
    ELSE ByteLexLess(Tail(a), Tail(b))

\* C4: at every moment of a scan, and so after every directory pass and in the
\* result, the map's iteration yields the names in strictly increasing
\* byte-lexicographic order.
C4_Ordering ==
    \A n \in 1..(Len(files_map) - 1) :
        ByteLexLess(files_map[n].key, files_map[n + 1].key)

\* Two names are in the result of which the smaller was inserted last, after
\* a /dev/null symlink of its name in the first directory.
C4_Witness ==
    /\ ScanDone
    /\ \E x, y \in Keys(files_map) :
        /\ ByteLexLess(x, y)
        /\ FileAt(1, y) /\ NullLinkAt(1, x) /\ FileAt(2, x)
        /\ KeySeq(files_map) = <<x, y>>

(***************************************************************************)
(* C5.  Extension filter.                                                  *)
(***************************************************************************)
RECURSIVE HasDot(_)
HasDot(s) == s # <<>> /\ (Head(s) = "." \/ HasDot(Tail(s)))

\* The text after the final '.' of a name that has one.
RECURSIVE AfterFinalDot(_)
AfterFinalDot(s) ==
    IF HasDot(Tail(s)) THEN AfterFinalDot(Tail(s))
    ELSE IF Head(s) = "." THEN Tail(s) ELSE s

NotHidden(x) == ~(ignore_dotfiles /\ Head(x) = ".")
Allowed(ext) == \E n \in 1..Len(allowed_extensions) : allowed_extensions[n] = ext

\* The extension filter as stated: the text after the final '.' is a member.
StatedExtensionFilter(x) ==
    allowed_extensions = <<>> \/ (HasDot(x) /\ Allowed(AfterFinalDot(x)))

\* The same, except that a '.' at the start of the name does not count.
LeadingDotExtensionFilter(x) ==
    allowed_extensions = <<>> \/ (HasDot(Tail(x)) /\ Allowed(AfterFinalDot(x)))

\* The entries named x take part in the scan: the result holds x exactly when
\* the last directory with x as a regular file or /dev/null symlink has the file.
TakesPart(x) == LastTyped(x) > 0 /\ FileAt(LastTyped(x), x)

\* C5 as stated: a name takes part exactly when allowed_extensions is empty or
\* the text after its final '.' is, case-sensitively, a member; every other
\* entry is skipped, whatever its type.
C5_ExtensionFilterAsStated ==
    ScanDone =>
        \A x \in AllNames :
            x \in Keys(files_map)
                <=> (NotHidden(x) /\ StatedExtensionFilter(x) /\ TakesPart(x))

\* C5 amended: as stated, with the extension being the text after the final '.'
\* that is not the first character of the name; a name whose only '.' is its
\* first character has no extension.
C5_ExtensionFilter ==
    ScanDone =>
        \A x \in AllNames :
            x \in Keys(files_map)
                <=> (NotHidden(x) /\ LeadingDotExtensionFilter(x) /\ TakesPart(x))

\* A regular file ".t" is skipped when only "t" is allowed and dotfiles are not ignored.
C5_Witness ==
    /\ ScanDone
    /\ ~ignore_dotfiles
    /\ allowed_extensions # <<>>
    /\ \E x \in AllNames :
        /\ Head(x) = "." /\ ~HasDot(Tail(x)) /\ Allowed(Tail(x))
        /\ TakesPart(x)
        /\ x \notin Keys(files_map)

(***************************************************************************)
(* C6.  Dotfile policy.                                                    *)
(***************************************************************************)
\* C6: with ignore_dotfiles no key of the map ever starts with '.'; without it a
\* name starting with '.' is in the result exactly like any other name, when it
\* passes the extension filter and its last regular file or /dev/null symlink
\* is a regular file.
C6_Dotfiles ==
    /\ ignore_dotfiles => \A n \in 1..Len(files_map) : Head(files_map[n].key) # "."
    /\ (ScanDone /\ ~ignore_dotfiles) =>
        \A x \in AllNames :
            x \in Keys(files_map) <=> (LeadingDotExtensionFilter(x) /\ TakesPart(x))

\* With ignore_dotfiles a hidden regular file with an allowed extension has been
\* listed and is not in the result.
C6_Witness ==
    /\ ScanDone
    /\ ignore_dotfiles
    /\ \E x \in AllNames :
        /\ Head(x) = "." /\ LeadingDotExtensionFilter(x) /\ allowed_extensions # <<>>
        /\ TakesPart(x)
        /\ x \notin Keys(files_map)

(***************************************************************************)
(* C7.  Missing-directory tolerance.                                       *)
(***************************************************************************)
\* base_dirs without the directories that cannot be listed.
ListableDirs == SelectSeq(base_dirs, LAMBDA d : tree[d].readable)

\* The filesystem with every directory that cannot be listed present and empty.
EmptiedTree ==
    [d \in DOMAIN tree |->
        IF tree[d].readable THEN tree[d] ELSE [readable |-> TRUE, entries |-> <<>>]]

\* C7: a scan has no failing exit: until it returns it is at one of its two
\* loops, between two directories or inside a directory that could be listed;
\* and the map it returns is the result of scanning with the directories that
\* cannot be listed left out of base_dirs, and the result of scanning with them
\* present and empty.
C7_MissingDirs ==
    /\ ~ScanDone =>
        /\ outcome = "none"
        /\ \/ pc = "for_dir" /\ dir_idx \in 1..(Len(base_dirs) + 1)
           \/ /\ pc = "for_entry"
              /\ dir_idx \in Positions
              /\ tree[base_dirs[dir_idx]].readable
              /\ dir_iter \subseteq DOMAIN tree[base_dirs[dir_idx]].entries
    /\ ScanReturned =>
        /\ files_map = scan(tree, ListableDirs, shared_path, allowed_extensions,
                            ignore_dotfiles)
        /\ files_map = scan(EmptiedTree, base_dirs, shared_path, allowed_extensions,
                            ignore_dotfiles)

\* The first directory cannot be listed although it holds a passing regular
\* file, a middle one does not exist, and the last one provides the result.
C7_Witness ==
    /\ ScanDone
    /\ Len(base_dirs) = 3
    /\ ~tree[base_dirs[1]].readable
    /\ tree[base_dirs[2]] = Missing
    /\ \E x \in AllNames :
        /\ Passing(x)
        /\ x \in DOMAIN tree[base_dirs[1]].entries
        /\ tree[base_dirs[1]].entries[x] = RegularFile
        /\ FileAt(3, x)
        /\ files_map = <<[key |-> x, val |-> LocationAt(3, x)]>>

(***************************************************************************)
(* C8.  scan_and_merge.                                                    *)
(***************************************************************************)
\* C8: the fold visits scan's entries in ascending name order from the empty
\* accumulator, one File::open and one merge per entry; Ok carries the fold
\* over all of them; an error is the failure of the last File::open or of the
\* merge that followed it, with nothing opened or merged after it; and after the
\* return nothing further happens.
C8_Merge ==
    /\ ~ScanDone => (res = <<>> /\ opened = <<>> /\ outcome = "none")
    /\ ScanDone =>
        /\ IsPrefix(res, KeySeq(files_map))
        /\ IsPrefix(opened, ValSeq(files_map))
        /\ (pc = "merge") =>
            /\ outcome = "none"
            /\ Len(opened) = Len(res)
            /\ merge_iter = SubSeq(files_map, Len(res) + 1, Len(files_map))
        /\ (pc = "return") =>
            /\ outcome \in {"Ok", "Err_open", "Err_merge"}
            /\ ~ENABLED Next
        /\ (outcome = "Ok") =>
            /\ res = KeySeq(files_map)
            /\ opened = ValSeq(files_map)
        /\ (outcome \in {"Err_open", "Err_merge"}) => Len(opened) = Len(res) + 1

\* The merge of the second of three fragments failed: the first is merged, the
\* third was never opened.
C8_Witness ==
    /\ pc = "return"
    /\ outcome = "Err_merge"
    /\ Len(files_map) = 3
    /\ res = <<files_map[1].key>>
    /\ opened = <<files_map[1].val, files_map[2].val>>

(***************************************************************************)
(* C9.  Non-file entries that are not tombstones.                          *)
(***************************************************************************)
\* C9: the step that handles a directory, a symlink whose target is not
\* /dev/null, or an entry whose metadata cannot be read leaves the map as it is.
C9_InertEntries ==
    [][(pc = "for_entry" /\ dir_iter' # dir_iter) =>
            LET x == CHOOSE n \in dir_iter : n \notin dir_iter' IN
            InertAt(dir_idx, x) => files_map' = files_map]_vars

\* A name contributed by an earlier directory is still mapped there after a
\* later directory's symlink to something else, of that name, was handled.
C9_Witness ==
    /\ pc = "for_entry"
    /\ dir_idx = 2
    /\ dir_iter = {}
    /\ \E x \in AllNames :
        /\ Passing(x)
        /\ FileAt(1, x)
        /\ Lists(2, x) /\ EntryAt(2, x) = Symlink(DevNullRelative)
        /\ files_map = <<[key |-> x, val |-> LocationAt(1, x)]>>

(***************************************************************************)
(* C10.  Listing-order independence.                                       *)
(***************************************************************************)
\* C10: whatever order the listings yield their entries in, the map after each
\* directory pass, and the map scan returns, is the one function of the
\* filesystem and the arguments that scan computes with the entries taken in a
\* fixed order: same keys, same values, same iteration order.
C10_ListingOrder ==
    /\ (pc = "for_dir") =>
        files_map = scan(tree, SubSeq(base_dirs, 1, dir_idx - 1), shared_path,
                         allowed_extensions, ignore_dotfiles)
    /\ ScanReturned =>
        files_map = scan(tree, base_dirs, shared_path, allowed_extensions,
                         ignore_dotfiles)

\* A directory with two passing entries, one inserting a name and one removing
\* another, has been scanned in one of its two orders.
C10_Witness ==
    /\ ScanDone
    /\ Len(base_dirs) >= 2
    /\ \E x, y \in AllNames :
        /\ x # y /\ Passing(x) /\ Passing(y)
        /\ FileAt(1, x)
        /\ NullLinkAt(2, x) /\ FileAt(2, y)
        /\ LastWord(2, x) /\ LastWord(2, y)
        /\ files_map = <<[key |-> y, val |-> LocationAt(2, y)]>>

====
